---- MODULE Spec2Model ----
(***************************************************************************)
(* Model of the scroll animation core of steve-jobs-archive:               *)
(*   - SpringPhysicsService        (services/springPhysicsService.js)      *)
(*   - ScrollAnimationOrchestrator (services/scrollAnimationOrchestrator.js)*)
(*                                                                         *)
(* Numbers.  JavaScript numbers are modelled in fixed point: a spring      *)
(* value v is the integer v * Unit (Unit = 10^6), a velocity is in Unit    *)
(* per second, a coefficient k or c is the integer k * CoefDen (twentieths)*)
(* and a time step dt is the integer dt * TicksPerSecond (sixtieths of a   *)
(* second).  Every product or quotient of the code is rounded to the       *)
(* nearest integer (RoundDiv), as the floating point operation rounds to   *)
(* the nearest double.                                                     *)
(***************************************************************************)
EXTENDS Integers, Sequences, FiniteSets, TLC

(***************************************************************************)
(* Program constants                                                       *)
(***************************************************************************)
\* this.sleepThreshold = 0.001, in Unit
sleepThreshold == 1000
\* this.maxDeltaTime = 0.1 s, in ticks of 1/60 s
maxDeltaTime == 6
\* coefficients k, c in 0..1 are held in twentieths (0.05)
CoefDen == 20
\* createSpring(id, initialValue = 0, target = 0, k = 0.5, c = 0.7)
DefaultK == 10
DefaultC == 14
\* this.autoSleep = true
autoSleep == TRUE
\* useSectionScroll: wheel deltas below 5 are ignored; a long section hands
\* over to its neighbour within 50 px of its edge
WheelMinDelta == 5
EdgeThreshold == 50
\* SPRING_PRESETS.SMOOTH, the default springConfig of useSectionSnap
SmoothK == 10
SmoothC == 14
\* useSectionSnap: snapThreshold = 0.3, in tenths
SnapThresholdTenths == 3
\* SCROLL_ANIMATION_CONFIG.scrollSpring, scrubberSpring, minimode.spring
ScrollSpringK == 18
ScrollSpringC == 19
ScrubberSpringK == 18
ScrubberSpringC == 19
MinimodeSpringK == 12
MinimodeSpringC == 16

Unit == 1000 * sleepThreshold
TicksPerSecond == 10 * maxDeltaTime
\* SCROLL_ANIMATION_CONFIG.labelAnimation.fadeRange = 0.15
LabelFadeRange == (3 * Unit) \div 20
\* SCROLL_ANIMATION_CONFIG.minimode.scale = 0.75 and .y = -100
MinimodeScale == (3 * Unit) \div 4
MinimodeY == -100 * Unit

(***************************************************************************)
(* Bounds of the model                                                     *)
(***************************************************************************)
\* requestAnimationFrame handles that can be live at once
MaxHandles == 3
\* integration frames explored in one behaviour
MaxFrames == 3
\* subscriptions of the orchestrator on the engine explored in one behaviour
MaxInits == 1
\* cooldown timers of useSectionScroll pending at one time
MaxCooldowns == 2
\* integration frames explored in one behaviour of the snap controller
MaxSnapFrames == 6
\* integration frames counted in a behaviour whose frames never end
MaxWakeFrames == 2
\* integration frames explored in one behaviour that follows a spring to rest
MaxLongFrames == 30

Null == "null"
NoId == "-"

\* springs that clients of the engine create by name: "x" is driven through
\* the whole API, "y" is a sibling that is created at rest and only removed
ClientIds == {"x", "y"}
DrivenIds == {"x"}
\* initial values and targets that clients pass
ClientValues == {0, Unit}
\* (initialValue, target) pairs of createSpring: at rest, and displaced
CreateArgs(id) == IF id \in DrivenIds THEN {<<0, 0>>, <<0, Unit>>} ELSE {<<0, 0>>}
\* a value closer to 0 than the sleep threshold but different from it
NearZero == sleepThreshold \div 2
\* time between two frame callbacks, in ticks: one display frame, a long
\* pause (tab in background); the first frame after a start has dt = 0
ElapsedSet == {1, 15}
ClientSubscribers == {"probe", "thrower"}

VARIABLES
    springs,            \* this.springs : id -> spring record
    isRunning,          \* this.isRunning
    rafId,              \* this.rafId : {} for null, or {handle}
    lastTime,           \* this.lastTime : Null or "set" (a timestamp)
    pending,            \* the browser's queue of requested frame callbacks
    onUpdateCallbacks,  \* this.onUpdateCallbacks : sequence of subscribers
    frames,             \* number of integration steps run so far (bounded)
    stepDt,             \* the constant dt of a run of repeated steps (SpecStep)
    nanSprings,         \* ids of the springs that were handed NaN (history)
    hook,               \* useSectionScroll: its refs, closure variables and timers
    page,               \* browser: the page of book sections the hook runs on
    sectionSnap,        \* useSectionSnap: its state, refs and timers
    isInitialized,      \* orchestrator: this.isInitialized
    isActive,           \* orchestrator: this.isActive (its listeners are attached)
    sections,           \* orchestrator: this.sections
    sectionPositions,   \* orchestrator: this.sectionPositions
    documentHeight,     \* orchestrator: this.documentHeight
    viewportHeight,     \* orchestrator: this.viewportHeight
    currentScrollProgress, \* orchestrator: this.currentScrollProgress
    minimodeActive,     \* orchestrator: this.minimodeActive
    callbacks,          \* orchestrator: the presentation callbacks that are not null
    config,             \* orchestrator: this.config (spring coefficients)
    resizeTimeout,      \* orchestrator: a resize debounce timer is pending
    scrollY,            \* browser: window.pageYOffset
    layout,             \* browser: the current layout of the document
    notified,           \* what the last notifyUpdate delivered (history)
    lastOp              \* the last operation performed (history)

engineVars == <<springs, isRunning, rafId, lastTime, pending, onUpdateCallbacks>>
orchVars == <<isInitialized, isActive, sections, sectionPositions, documentHeight,
              viewportHeight, currentScrollProgress, minimodeActive, callbacks,
              config, resizeTimeout>>
\* the orchestrator's state but the progress that handleSpringUpdate writes
orchStatic == <<isInitialized, isActive, sections, sectionPositions, documentHeight,
                viewportHeight, minimodeActive, callbacks, config, resizeTimeout>>
browserVars == <<scrollY, layout>>
\* state that the engine and the orchestrator leave alone but for NaN
sideVars == <<stepDt, nanSprings, hook, page, sectionSnap>>
\* what no operation of the engine touches
nonEngine == <<sideVars, orchVars, browserVars>>
vars == <<springs, isRunning, rafId, lastTime, pending, onUpdateCallbacks,
          frames, sideVars, notified, lastOp, orchVars, browserVars>>

(***************************************************************************)
(* Arithmetic                                                              *)
(***************************************************************************)
Abs(n) == IF n < 0 THEN -n ELSE n
Min(a, b) == IF a < b THEN a ELSE b
Max(a, b) == IF a > b THEN a ELSE b
\* a / b rounded to the nearest integer (halves upwards), b > 0
RoundDiv(a, b) == (a + b \div 2) \div b

Op(name, known) == [op |-> name, known |-> known]
NoNotify == [got |-> <<>>, snap |-> <<>>, escaped |-> FALSE, slept |-> FALSE,
             reacted |-> FALSE, skipped |-> {}, dt |-> 0]

(***************************************************************************)
(* SpringPhysicsService: pure parts                                        *)
(***************************************************************************)
\* the spring object createSpring builds
NewSpring(initialValue, target, k, c) ==
    [value |-> initialValue, target |-> target, velocity |-> 0,
     k |-> k, c |-> c, isSettled |-> FALSE]

\* this.springs.set(id, spring)
MapSet(map, id, val) ==
    [i \in DOMAIN map \cup {id} |-> IF i = id THEN val ELSE map[i]]

\* this.springs.delete(id)
MapDelete(map, id) == [i \in DOMAIN map \ {id} |-> map[i]]

\* createSpring: the springs map after the call
createSpringMap(sp, id, initialValue, target, k, c) ==
    MapSet(sp, id, NewSpring(initialValue, target, k, c))

\* updateTarget on a registered spring
retarget(s, newTarget) == [s EXCEPT !.target = newTarget, !.isSettled = FALSE]

\* setValue on a registered spring
jump(s, newValue) ==
    [s EXCEPT !.value = newValue, !.velocity = 0,
              !.isSettled = Abs(newValue - s.target) < sleepThreshold]

\* setConfig on a registered spring; cfg is a record with optional k and c
reconfigure(s, cfg) ==
    [s EXCEPT !.k = IF "k" \in DOMAIN cfg THEN cfg.k ELSE @,
              !.c = IF "c" \in DOMAIN cfg THEN cfg.c ELSE @]

\* the settle test of step
atRest(s) ==
    /\ Abs(s.velocity) < sleepThreshold
    /\ Abs(s.value - s.target) < sleepThreshold

\* Euler integration of one spring over dt
integrate(s, dt) ==
    LET displacement == s.value - s.target
        springForce  == - RoundDiv(s.k * displacement, CoefDen)
        dampingForce == - RoundDiv(s.c * s.velocity, CoefDen)
        totalForce   == springForce + dampingForce
        velocity     == s.velocity + RoundDiv(totalForce * dt, TicksPerSecond)
        value        == s.value + RoundDiv(velocity * dt, TicksPerSecond)
    IN  [s EXCEPT !.velocity = velocity, !.value = value]

\* mutant of stepSpring: settled springs are not skipped
stepSpringNoSkip(s, dt) ==
    IF atRest(s)
    THEN [s EXCEPT !.value = s.target, !.velocity = 0, !.isSettled = TRUE]
    ELSE integrate(s, dt)

\* mutant of stepSpring: no hard stop, the spring only fades towards its target
stepSpringNoSnap(s, dt) ==
    IF s.isSettled THEN s ELSE integrate(s, dt)

\* the body of step's forEach for one spring
stepSpring(s, dt) ==
    IF s.isSettled THEN s
    ELSE IF atRest(s)
    THEN [s EXCEPT !.value = s.target, !.velocity = 0, !.isSettled = TRUE]
    ELSE integrate(s, dt)

\* step's forEach over the whole map
stepSprings(sp, dt) == [id \in DOMAIN sp |-> stepSpring(sp[id], dt)]

\* step's local allSettled after the forEach: a spring leaves it true when it
\* was skipped as settled or was snapped in this very step
allSettledAfter(sp) ==
    \A id \in DOMAIN sp : sp[id].isSettled \/ atRest(sp[id])

\* notifyUpdate's springValues object
springValues(sp) == [id \in DOMAIN sp |-> sp[id].value]


(***************************************************************************)
(* SpringPhysicsService: the frame loop                                    *)
(* The loop state is the record [isRunning, rafId, lastTime, pending].     *)
(***************************************************************************)
Range(seq) == {seq[i] : i \in 1..Len(seq)}
Without(seq, set) == SelectSeq(seq, LAMBDA h : h \notin set)

LoopState == [isRunning |-> isRunning, rafId |-> rafId, lastTime |-> lastTime,
              pending |-> pending]

FreeHandles(L) == {h \in 1..MaxHandles : h \notin Range(L.pending) \cup L.rafId}
NewHandle(L) == CHOOSE h \in FreeHandles(L) : \A g \in FreeHandles(L) : h <= g

\* this.rafId = requestAnimationFrame(this.loop)
requestFrame(L) ==
    [L EXCEPT !.rafId = {NewHandle(L)}, !.pending = Append(L.pending, NewHandle(L))]

\* startLoop
startLoopSt(L) ==
    IF L.isRunning THEN L
    ELSE requestFrame([L EXCEPT !.isRunning = TRUE, !.lastTime = Null])

\* stopLoop
stopLoopSt(L) ==
    IF ~L.isRunning THEN L
    ELSE [L EXCEPT !.isRunning = FALSE,
                   !.pending = Without(L.pending, L.rafId),
                   !.rafId = {},
                   !.lastTime = Null]

\* mutant of notifyDelivery: no try/catch around the callback
notifyNoCatch(cbs) ==
    IF "thrower" \in Range(cbs)
    THEN LET first == CHOOSE i \in 1..Len(cbs) :
                          cbs[i] = "thrower" /\ \A j \in 1..(i - 1) : cbs[j] # "thrower"
         IN  [got |-> SubSeq(cbs, 1, first), escaped |-> TRUE]
    ELSE [got |-> cbs, escaped |-> FALSE]

\* notifyUpdate's forEach with its try/catch: which subscribers are invoked,
\* and whether an exception leaves notifyUpdate
notifyDelivery(cbs) == [got |-> cbs, escaped |-> FALSE]

\* mutant of frameSnapshot: subscribers are notified before the springs advance
frameSnapshotEarly(sp, dt) == springValues(sp)

\* the value set handed to the subscribers of a frame: notifyUpdate runs after
\* step's forEach and reads the springs then
frameSnapshot(sp, dt) == springValues(stepSprings(sp, dt))

\* what a subscriber does inside its callback: updateTarget(react.id, react.target)
\* (isRunning is true inside step, so updateTarget does not call startLoop)
applyReaction(sp, got, react) ==
    IF "probe" \in Range(got) /\ react.id \in DOMAIN sp
    THEN [sp EXCEPT ![react.id] = retarget(@, react.target)]
    ELSE sp

NoReact == [id |-> NoId, target |-> 0]
Reactions == {NoReact} \cup [id : {"x"}, target : {Unit}]

\* step(dt) followed by the rest of loop(): the engine state after one frame
\* callback that found isRunning true.  L is the loop state once the callback
\* has been taken off the browser's queue.
frameResult(sp, L, cbs, dt, react) ==
    LET advanced   == stepSprings(sp, dt)
        allSettled == allSettledAfter(sp)
        del        == IF Len(cbs) = 0 THEN [got |-> <<>>, escaped |-> FALSE]
                      ELSE notifyDelivery(cbs)
        snap       == IF Len(cbs) = 0 THEN <<>> ELSE frameSnapshot(sp, dt)
        skipped    == {id \in DOMAIN sp : sp[id].isSettled}
        after      == applyReaction(advanced, del.got, react)
        timed      == [L EXCEPT !.lastTime = "set"]
        sleep      == allSettled /\ autoSleep /\ timed.isRunning
        slept      == IF sleep THEN stopLoopSt(timed) ELSE timed
    IN  IF del.escaped
        THEN [springs |-> after, loop |-> timed,
              note |-> [got |-> del.got, snap |-> snap, escaped |-> TRUE,
                        slept |-> FALSE,
                        reacted |-> after # advanced, skipped |-> skipped,
                        dt |-> dt]]
        ELSE [springs |-> after, loop |-> requestFrame(slept),
              note |-> [got |-> del.got, snap |-> snap, escaped |-> FALSE,
                        slept |-> sleep,
                        reacted |-> after # advanced, skipped |-> skipped,
                        dt |-> dt]]

SetLoop(L) ==
    /\ isRunning' = L.isRunning
    /\ rafId' = L.rafId
    /\ lastTime' = L.lastTime
    /\ pending' = L.pending

(***************************************************************************)
(* SpringPhysicsService: operations on the engine state                    *)
(* E = [springs, loop]                                                     *)
(***************************************************************************)
Engine == [springs |-> springs, loop |-> LoopState]

SetEngine(E) == springs' = E.springs /\ SetLoop(E.loop)

\* a frame can still be requested within the bound on live handles
CanRequest == FreeHandles(LoopState) # {}

createSpringE(E, id, initialValue, target, k, c) ==
    [E EXCEPT !.springs = createSpringMap(E.springs, id, initialValue, target, k, c)]

\* mutant of updateTargetE: the loop is started before the id is looked up
updateTargetStartsFirst(E, id, newTarget) ==
    IF id \notin DOMAIN E.springs
    THEN [E EXCEPT !.loop = startLoopSt(E.loop)]
    ELSE [springs |-> [E.springs EXCEPT ![id] = retarget(@, newTarget)],
          loop |-> startLoopSt(E.loop)]

updateTargetE(E, id, newTarget) ==
    IF id \notin DOMAIN E.springs
    THEN E
    ELSE [springs |-> [E.springs EXCEPT ![id] = retarget(@, newTarget)],
          loop |-> startLoopSt(E.loop)]

setValueE(E, id, newValue) ==
    IF id \notin DOMAIN E.springs
    THEN E
    ELSE [E EXCEPT !.springs[id] = jump(@, newValue)]

setConfigE(E, id, cfg) ==
    IF id \notin DOMAIN E.springs
    THEN E
    ELSE [E EXCEPT !.springs[id] = reconfigure(@, cfg)]

removeSpringE(E, id) == [E EXCEPT !.springs = MapDelete(E.springs, id)]

(***************************************************************************)
(* Browser: the document                                                   *)
(* A layout gives document.documentElement.scrollHeight, window.innerHeight*)
(* and the document rectangle (top, height) of every section element that  *)
(* exists, in pixels.                                                      *)
(***************************************************************************)
Layouts == {1, 2}
Dom(l) ==
    CASE l = 1 ->
         [scrollHeight |-> 800, innerHeight |-> 400,
          rects |-> [id \in {"s1", "s2"} |->
                        [top |-> IF id = "s1" THEN 0 ELSE 400, height |-> 400]]]
      [] l = 2 ->
         [scrollHeight |-> 600, innerHeight |-> 300,
          rects |-> [id \in {"s1", "s2"} |->
                        [top |-> IF id = "s1" THEN 0 ELSE 300, height |-> 300]]]
      [] OTHER ->
         \* the whole document fits the window: nothing to scroll
         [scrollHeight |-> 400, innerHeight |-> 400,
          rects |-> [id \in {"s1", "s2"} |->
                        [top |-> IF id = "s1" THEN 0 ELSE 200, height |-> 200]]]

\* how far the browser lets the document scroll
DomMaxScroll(l) == Max(0, Dom(l).scrollHeight - Dom(l).innerHeight)
\* where the user can leave the scroll position: top, bottom
ScrollStops(l) == {0, DomMaxScroll(l)}

\* window.scrollTo({top, behavior}): the request handed to the browser; the
\* movement it causes arrives as scroll events
scrollTo(top, behavior) == [top |-> top, behavior |-> behavior]
\* the browser keeps the scroll position inside the document
Landed(top, l) == Max(0, Min(top, DomMaxScroll(l)))

(***************************************************************************)
(* ScrollAnimationOrchestrator: pure parts                                 *)
(***************************************************************************)
SCROLL == "scroll-main"
SCRUBBER_FILL == "scrubber-fill"
MINIMODE_SCALE == "minimode-scale"
MINIMODE_Y == "minimode-y"

AllCallbacks == {"onScrollProgressUpdate", "onScrubberUpdate", "onLabelUpdate",
                 "onContentTransformUpdate"}

\* the constructor's this.config
DefaultConfig ==
    [scrollSpring   |-> [k |-> ScrollSpringK, c |-> ScrollSpringC],
     scrubberSpring |-> [k |-> ScrubberSpringK, c |-> ScrubberSpringC],
     minimodeSpring |-> [k |-> MinimodeSpringK, c |-> MinimodeSpringC],
     labelFadeRange |-> LabelFadeRange,
     minimodeScale  |-> MinimodeScale,
     minimodeY      |-> MinimodeY]

\* useSectionScroll: the refs of a component that rendered with the hook
\* disabled or not yet run its effect
\* useSectionSnap: the state of a component that rendered with the hook on
\* snap document d. userScrollTimeout: the 150 ms timer is pending, closureY:
\* the scrollY its callback captured; animating: a frame of updateScroll is
\* requested; key, metaKey, prevented, called: what the last handler was
\* given and did (called: its snapToSection calls)
SnapRendered(d) ==
    [dom |-> d, mounted |-> FALSE, sections |-> <<>>, currentSectionIndex |-> 0,
     isSnapping |-> FALSE, lastScrollY |-> 0, scrollDirection |-> "down",
     isUserScrolling |-> FALSE, userScrollTimeout |-> FALSE, closureY |-> 0,
     animating |-> FALSE, key |-> "", metaKey |-> FALSE, prevented |-> FALSE,
     called |-> <<>>]

\* mounted: the effect ran and its listeners are attached; scrollTimeout,
\* initialJump: that timer is pending; cooldowns: pending 600 ms timers;
\* issued, deltaY, key, prevented, threw: what the last handler was given and
\* did
HookRendered ==
    [mounted |-> FALSE, sections |-> <<>>, currentSectionRef |-> 0,
     isScrollingRef |-> FALSE, scrollTimeout |-> FALSE, cooldowns |-> 0,
     initialJump |-> FALSE, issued |-> <<>>, deltaY |-> 0, key |-> "",
     prevented |-> FALSE, threw |-> FALSE]

\* the state the constructor leaves, in a browser where nothing else runs
OrchConstructed ==
    /\ isInitialized = FALSE
    /\ isActive = FALSE
    /\ sections = <<>>
    /\ sectionPositions = <<>>
    /\ documentHeight = 0
    /\ viewportHeight = 0
    /\ currentScrollProgress = 0
    /\ minimodeActive = FALSE
    /\ callbacks = {}
    /\ config = DefaultConfig
    /\ resizeTimeout = FALSE
    /\ scrollY = 0
    /\ layout = 1
    /\ nanSprings = {}
    /\ hook = HookRendered

\* mutant of measureSections: a section without element is left out
measureSectionsSkipMissing(secs, l) ==
    [documentHeight |-> Dom(l).scrollHeight,
     viewportHeight |-> Dom(l).innerHeight,
     sectionPositions |->
        LET found == SelectSeq(secs, LAMBDA id : id \in DOMAIN Dom(l).rects)
        IN  [i \in 1..Len(found) |->
                LET rect == Dom(l).rects[found[i]]
                IN  [top |-> rect.top, height |-> rect.height,
                     center |-> rect.top + rect.height \div 2]]]

\* measureSections: one record per section of the list, zeros for a missing element
measureSections(secs, l) ==
    [documentHeight |-> Dom(l).scrollHeight,
     viewportHeight |-> Dom(l).innerHeight,
     sectionPositions |->
        [i \in 1..Len(secs) |->
            IF secs[i] \notin DOMAIN Dom(l).rects
            THEN [top |-> 0, height |-> 0, center |-> 0]
            ELSE LET rect == Dom(l).rects[secs[i]]
                 IN  [top |-> rect.top, height |-> rect.height,
                      center |-> rect.top + rect.height \div 2]]]

\* a coefficient passed to createSpring(id, value, target, k = 0.5, c = 0.7):
\* undefined takes the parameter's default
CoefK(springCfg) == IF "k" \in DOMAIN springCfg THEN springCfg.k ELSE DefaultK
CoefC(springCfg) == IF "c" \in DOMAIN springCfg THEN springCfg.c ELSE DefaultC

\* createSprings
createSprings(E, cfg) ==
    LET e1 == createSpringE(E, SCROLL, 0, 0, CoefK(cfg.scrollSpring),
                            CoefC(cfg.scrollSpring))
        e2 == createSpringE(e1, SCRUBBER_FILL, 0, 0, CoefK(cfg.scrubberSpring),
                            CoefC(cfg.scrubberSpring))
        e3 == createSpringE(e2, MINIMODE_SCALE, Unit, Unit, CoefK(cfg.minimodeSpring),
                            CoefC(cfg.minimodeSpring))
    IN  createSpringE(e3, MINIMODE_Y, 0, 0, CoefK(cfg.minimodeSpring),
                      CoefC(cfg.minimodeSpring))

\* updateConfig: { ...this.config, ...newConfig }, a key of newConfig replaces
\* the whole value of that key
mergeConfig(cfg, newConfig) ==
    [f \in DOMAIN cfg \cup DOMAIN newConfig |->
        IF f \in DOMAIN newConfig THEN newConfig[f] ELSE cfg[f]]

\* updateConfig: the setConfig calls for the spring keys that newConfig holds
propagateConfig(E, newConfig) ==
    LET e1 == IF "scrollSpring" \in DOMAIN newConfig
              THEN setConfigE(E, SCROLL, newConfig.scrollSpring) ELSE E
        e2 == IF "scrubberSpring" \in DOMAIN newConfig
              THEN setConfigE(e1, SCRUBBER_FILL, newConfig.scrubberSpring) ELSE e1
    IN  IF "minimodeSpring" \in DOMAIN newConfig
        THEN setConfigE(setConfigE(e2, MINIMODE_SCALE, newConfig.minimodeSpring),
                        MINIMODE_Y, newConfig.minimodeSpring)
        ELSE e2

\* handleNativeScroll's progress: scrollY / maxScroll, 0 when not scrollable
scrollProgressOf(y, docH, vpH) ==
    LET maxScroll == docH - vpH
    IN  IF maxScroll > 0 THEN RoundDiv(y * Unit, maxScroll) ELSE 0

\* handleNativeScroll
\* mutant of handleNativeScroll: the fill indicator is not retargeted
handleNativeScrollMainOnly(E, y, docH, vpH) ==
    updateTargetE(E, SCROLL, scrollProgressOf(y, docH, vpH))

handleNativeScroll(E, y, docH, vpH) ==
    LET progress == scrollProgressOf(y, docH, vpH)
    IN  updateTargetE(updateTargetE(E, SCROLL, progress), SCRUBBER_FILL, progress)

\* handleSpringUpdate: what it stores and hands to the presentation callbacks
handleSpringUpdate(springValuesArg) ==
    [scrollProgress |-> IF SCROLL \in DOMAIN springValuesArg
                        THEN springValuesArg[SCROLL] ELSE 0,
     scrubberProgress |-> IF SCRUBBER_FILL \in DOMAIN springValuesArg
                          THEN springValuesArg[SCRUBBER_FILL] ELSE 0]

\* mutant of scrollToProgressR: the progress is used as passed
scrollToProgressNoClamp(E, progress, smooth, docH, vpH) ==
    LET maxScroll     == docH - vpH
        targetScrollY == RoundDiv(progress * maxScroll, Unit)
    IN  IF smooth
        THEN [engine |-> updateTargetE(updateTargetE(E, SCROLL, progress),
                                       SCRUBBER_FILL, progress),
              request |-> scrollTo(targetScrollY, "smooth")]
        ELSE [engine |-> setValueE(setValueE(E, SCROLL, progress),
                                   SCRUBBER_FILL, progress),
              request |-> scrollTo(targetScrollY, "auto")]

\* scrollToProgress: the engine after it and the native scroll it requests
scrollToProgressR(E, progress, smooth, docH, vpH) ==
    LET clampedProgress == Max(0, Min(Unit, progress))
        maxScroll       == docH - vpH
        targetScrollY   == RoundDiv(clampedProgress * maxScroll, Unit)
    IN  IF smooth
        THEN [engine |-> updateTargetE(updateTargetE(E, SCROLL, clampedProgress),
                                       SCRUBBER_FILL, clampedProgress),
              request |-> scrollTo(targetScrollY, "smooth")]
        ELSE [engine |-> setValueE(setValueE(E, SCROLL, clampedProgress),
                                   SCRUBBER_FILL, clampedProgress),
              request |-> scrollTo(targetScrollY, "auto")]

\* getState, but the engine's own report
getState ==
    [isInitialized |-> isInitialized, isActive |-> isActive,
     scrollProgress |-> currentScrollProgress, minimodeActive |-> minimodeActive,
     sectionCount |-> Len(sections)]

\* what getState reports on a newly constructed orchestrator
ConstructedState ==
    [isInitialized |-> FALSE, isActive |-> FALSE, scrollProgress |-> 0,
     minimodeActive |-> FALSE, sectionCount |-> 0]

\* calculateLabelAnimations: distance of one section from the current scroll
\* position, in viewport heights
labelDistance(position, scrollProgress) ==
    LET maxScroll      == documentHeight - viewportHeight
        currentScrollY == scrollProgress * maxScroll
    IN  RoundDiv(Abs(currentScrollY - position.center * Unit), viewportHeight)

\* a / b of two fixed-point numbers, a below 2000: the quotient is taken in
\* thousandths so that the product stays within 32 bits
FixDiv(a, b) ==
    LET thousand == Unit \div sleepThreshold
    IN  RoundDiv(a * thousand, b \div thousand)

\* calculateLabelAnimations: one record per measured section, with the fields
\* index, opacity and isActive (scale and yOffset are functions of opacity)
calculateLabelAnimations(scrollProgress) ==
    [i \in 1..Len(sectionPositions) |->
        LET distance == labelDistance(sectionPositions[i], scrollProgress)
        IN  [index    |-> i - 1,
             opacity  |-> Max(0, Min(Unit, Unit - FixDiv(distance,
                                                         config.labelFadeRange))),
             isActive |-> 2 * distance < Unit]]

\* scrollToSection's progress: position.top / maxScroll as JavaScript divides,
\* a number, or Infinity for top > 0 over 0, or NaN for 0 over 0
sectionProgress(top, maxScroll) ==
    IF maxScroll # 0
    THEN [kind |-> "number", v |-> RoundDiv(top * Unit, maxScroll)]
    ELSE IF top = 0 THEN [kind |-> "NaN", v |-> 0]
    ELSE [kind |-> "Infinity", v |-> 0]

\* updateTarget(id, NaN): the target is NaN, isSettled false, the loop started
updateTargetNaN(E, id) ==
    IF id \notin DOMAIN E.springs
    THEN E
    ELSE [springs |-> [E.springs EXCEPT ![id].isSettled = FALSE],
          loop |-> startLoopSt(E.loop)]

\* setValue(id, NaN): the value is NaN, velocity 0, and isSettled false as
\* Math.abs(NaN - target) < threshold is false
setValueNaN(E, id) ==
    IF id \notin DOMAIN E.springs
    THEN E
    ELSE [E EXCEPT !.springs[id].velocity = 0, !.springs[id].isSettled = FALSE]

\* scrollToProgress(NaN): Math.max(0, Math.min(1, NaN)) is NaN
scrollToProgressNaN(E, smooth) ==
    IF smooth
    THEN [engine |-> updateTargetNaN(updateTargetNaN(E, SCROLL), SCRUBBER_FILL),
          handed |-> {SCROLL, SCRUBBER_FILL} \cap DOMAIN E.springs]
    ELSE [engine |-> setValueNaN(setValueNaN(E, SCROLL), SCRUBBER_FILL),
          handed |-> {SCROLL, SCRUBBER_FILL} \cap DOMAIN E.springs]

\* scrollToSection's index test (0-based index)
validIndex(sectionIndex, positions) ==
    ~(sectionIndex < 0 \/ sectionIndex >= Len(positions))

(***************************************************************************)
(* SpringPhysicsService: operations called by clients                      *)
(***************************************************************************)
createSpring(id, initialValue, target, k, c) ==
    /\ SetEngine(createSpringE(Engine, id, initialValue, target, k, c))
    /\ lastOp' = Op("createSpring", id \in DOMAIN springs)
    /\ notified' = NoNotify
    /\ UNCHANGED <<onUpdateCallbacks, frames, nonEngine>>

updateTarget(id, newTarget) ==
    /\ CanRequest
    /\ SetEngine(updateTargetE(Engine, id, newTarget))
    /\ lastOp' = Op("updateTarget", id \in DOMAIN springs)
    /\ notified' = NoNotify
    /\ UNCHANGED <<onUpdateCallbacks, frames, nonEngine>>

setValue(id, newValue) ==
    /\ SetEngine(setValueE(Engine, id, newValue))
    /\ lastOp' = Op("setValue", id \in DOMAIN springs)
    /\ notified' = NoNotify
    /\ UNCHANGED <<onUpdateCallbacks, frames, nonEngine>>

setConfig(id, cfg) ==
    /\ SetEngine(setConfigE(Engine, id, cfg))
    /\ lastOp' = Op("setConfig", id \in DOMAIN springs)
    /\ notified' = NoNotify
    /\ UNCHANGED <<onUpdateCallbacks, frames, nonEngine>>

removeSpring(id) ==
    /\ SetEngine(removeSpringE(Engine, id))
    /\ lastOp' = Op("removeSpring", id \in DOMAIN springs)
    /\ notified' = NoNotify
    /\ UNCHANGED <<onUpdateCallbacks, frames, nonEngine>>

startLoop ==
    /\ CanRequest
    /\ SetLoop(startLoopSt(LoopState))
    /\ lastOp' = Op("startLoop", isRunning)
    /\ notified' = NoNotify
    /\ UNCHANGED <<springs, onUpdateCallbacks, frames, nonEngine>>

stopLoop ==
    /\ SetLoop(stopLoopSt(LoopState))
    /\ lastOp' = Op("stopLoop", isRunning)
    /\ notified' = NoNotify
    /\ UNCHANGED <<springs, onUpdateCallbacks, frames, nonEngine>>

\* onUpdate(callback): push
onUpdate(cb) ==
    /\ cb \notin Range(onUpdateCallbacks)
    /\ onUpdateCallbacks' = Append(onUpdateCallbacks, cb)
    /\ lastOp' = Op("onUpdate", FALSE)
    /\ notified' = NoNotify
    /\ UNCHANGED <<springs, isRunning, rafId, lastTime, pending, frames, nonEngine>>

\* the function onUpdate returned: filter(cb => cb !== callback)
unsubscribe(cb) ==
    /\ cb \in Range(onUpdateCallbacks)
    /\ onUpdateCallbacks' = SelectSeq(onUpdateCallbacks, LAMBDA x : x # cb)
    /\ lastOp' = Op("unsubscribe", TRUE)
    /\ notified' = NoNotify
    /\ UNCHANGED <<springs, isRunning, rafId, lastTime, pending, frames, nonEngine>>

\* the browser runs the oldest requested frame callback: loop(currentTime),
\* in a behaviour of at most maxFrames integration steps
loopFrame(elapsed, react, explored, counted) ==
    /\ pending # <<>>
    /\ LET L == [LoopState EXCEPT !.pending = Tail(pending)]
       IN  IF ~isRunning
           THEN /\ SetLoop(L)
                /\ lastOp' = Op("loop", FALSE)
                /\ react = NoReact /\ elapsed = 0
                /\ notified' = NoNotify
                /\ UNCHANGED <<springs, frames, currentScrollProgress>>
           ELSE /\ explored
                /\ elapsed # 0
                /\ react # NoReact => "probe" \in Range(onUpdateCallbacks)
                /\ LET dt == IF lastTime = Null THEN 0 ELSE Min(elapsed, maxDeltaTime)
                       r  == frameResult(springs, L, onUpdateCallbacks, dt, react)
                   IN  /\ springs' = r.springs
                       /\ SetLoop(r.loop)
                       /\ notified' = r.note
                       /\ lastOp' = Op("loop", TRUE)
                       /\ frames' = counted
                       /\ currentScrollProgress' =
                              IF "orch" \in Range(r.note.got)
                              THEN handleSpringUpdate(r.note.snap).scrollProgress
                              ELSE currentScrollProgress
    /\ UNCHANGED <<onUpdateCallbacks, sideVars, orchStatic, browserVars>>

\* the frame callback, explored for the first maxFrames integration steps of a
\* behaviour
loopUpTo(maxFrames, elapsed, react) ==
    loopFrame(elapsed, react, frames < maxFrames, frames + 1)

loop(elapsed, react) == loopUpTo(MaxFrames, elapsed, react)

\* the frame callback, explored without end: the count of steps stops at
\* maxFrames
loopOn(maxFrames, elapsed) ==
    loopFrame(elapsed, NoReact, TRUE, Min(frames + 1, maxFrames))

(***************************************************************************)
(* Specification of the engine with its clients                            *)
(***************************************************************************)
Init ==
    /\ springs = <<>>
    /\ isRunning = FALSE
    /\ rafId = {}
    /\ lastTime = Null
    /\ pending = <<>>
    /\ onUpdateCallbacks = <<>>
    /\ frames = 0
    /\ stepDt = 0
    /\ notified = NoNotify
    /\ lastOp = Op("construct", FALSE)
    /\ OrchConstructed
    /\ page = 1
    /\ sectionSnap = SnapRendered(1)

\* setConfig(id, {c: 0.95}): k undefined
ClientConfigs == {[c |-> 19]}

Next ==
    \/ \E id \in ClientIds : \E a \in CreateArgs(id) :
          createSpring(id, a[1], a[2], DefaultK, DefaultC)
    \/ \E id \in DrivenIds, t \in ClientValues : updateTarget(id, t)
    \/ \E id \in DrivenIds, v \in {NearZero, Unit} : setValue(id, v)
    \/ \E id \in DrivenIds, cfg \in ClientConfigs : setConfig(id, cfg)
    \/ \E id \in ClientIds : removeSpring(id)
    \/ startLoop
    \/ stopLoop
    \/ \E cb \in ClientSubscribers : onUpdate(cb)
    \/ \E cb \in ClientSubscribers : unsubscribe(cb)
    \/ \E e \in ElapsedSet \cup {0}, r \in Reactions : loop(e, r)

Spec == Init /\ [][Next]_vars

(***************************************************************************)
(* Specification of repeated integration steps on one spring               *)
(* step(dt) applied again and again with a constant dt to the spring that  *)
(* createSpring('x', v0, v0, k, c); updateTarget('x', T) leaves.           *)
(***************************************************************************)
\* coefficients strictly between 0 and 1: 0.1, 0.5, 0.7, 0.95
StepK == {2, DefaultK, 19}
StepC == {2, DefaultC, 19}
\* one display frame (1/60 s) and the capped step
StepDts == {1, maxDeltaTime}
\* (v0, T)
StepMoves == {<<0, Unit>>, <<Unit, 0>>}
\* 2 seconds of frames at dt = 1/60
ScenarioFrames == 2 * TicksPerSecond

InitStep ==
    /\ \E m \in StepMoves, k \in StepK, c \in StepC :
          springs = [id \in {"x"} |-> retarget(NewSpring(m[1], m[1], k, c), m[2])]
    /\ stepDt \in StepDts
    /\ isRunning = FALSE
    /\ rafId = {}
    /\ lastTime = Null
    /\ pending = <<>>
    /\ onUpdateCallbacks = <<>>
    /\ frames = 0
    /\ notified = NoNotify
    /\ lastOp = Op("updateTarget", TRUE)
    /\ OrchConstructed
    /\ page = 1
    /\ sectionSnap = SnapRendered(1)

\* step(dt) called directly
step ==
    /\ springs' = stepSprings(springs, stepDt)
    /\ frames' = Min(frames + 1, ScenarioFrames + 1)
    /\ lastOp' = Op("step", TRUE)
    /\ UNCHANGED <<isRunning, rafId, lastTime, pending, onUpdateCallbacks,
                   sideVars, notified, orchVars, browserVars>>

NextStep == step

SpecStep == InitStep /\ [][NextStep]_vars /\ WF_vars(step)

(***************************************************************************)
(* Specification of the engine under fair frames                           *)
(* A client creates, moves and retargets the spring "x" while the loop is  *)
(* asleep; nobody calls stopLoop; every requested frame eventually runs.   *)
(***************************************************************************)
WakeFrame == \E e \in {0, 2 * maxDeltaTime} : loopOn(MaxWakeFrames, e)

NextWake ==
    \/ \E a \in CreateArgs("x") :
          ~isRunning /\ createSpring("x", a[1], a[2], DefaultK, DefaultC)
    \/ \E v \in ClientValues : ~isRunning /\ setValue("x", v)
    \/ \E t \in ClientValues : ~isRunning /\ updateTarget("x", t)
    \/ WakeFrame

SpecWake == Init /\ [][NextWake]_vars /\ WF_vars(WakeFrame)

(***************************************************************************)
(* ScrollAnimationOrchestrator: operations, and the browser events it      *)
(* listens to                                                              *)
(***************************************************************************)
\* the subscriptions handleSpringUpdate holds on the engine
OrchSubscriptions == Len(SelectSeq(onUpdateCallbacks, LAMBDA x : x = "orch"))

init(secs, cbs) ==
    /\ lastOp' = Op("init", isInitialized)
    /\ notified' = NoNotify
    /\ IF isInitialized
       THEN UNCHANGED <<engineVars, orchVars>>
       ELSE /\ OrchSubscriptions < MaxInits
            /\ sections' = secs
            /\ callbacks' = cbs
            /\ LET m == measureSections(secs, layout)
               IN  /\ documentHeight' = m.documentHeight
                   /\ viewportHeight' = m.viewportHeight
                   /\ sectionPositions' = m.sectionPositions
            /\ SetEngine(createSprings(Engine, config))
            /\ onUpdateCallbacks' = Append(onUpdateCallbacks, "orch")
            /\ isInitialized' = TRUE
            /\ UNCHANGED <<isActive, currentScrollProgress, minimodeActive, config,
                           resizeTimeout>>
    /\ UNCHANGED <<frames, sideVars, browserVars>>

start ==
    /\ lastOp' = Op("start", TRUE)
    /\ notified' = NoNotify
    /\ IF isActive
       THEN UNCHANGED <<isRunning, rafId, lastTime, pending, isActive>>
       ELSE /\ CanRequest
            /\ isActive' = TRUE
            /\ SetLoop(startLoopSt(LoopState))
    /\ UNCHANGED <<springs, onUpdateCallbacks, frames, sideVars, isInitialized, sections,
                   sectionPositions, documentHeight, viewportHeight,
                   currentScrollProgress, minimodeActive, callbacks, config,
                   resizeTimeout, browserVars>>

\* stop: the loop state it leaves
stopR(L, active) == IF ~active THEN L ELSE stopLoopSt(L)

stop ==
    /\ lastOp' = Op("stop", TRUE)
    /\ notified' = NoNotify
    /\ isActive' = FALSE
    /\ SetLoop(stopR(LoopState, isActive))
    /\ UNCHANGED <<springs, onUpdateCallbacks, frames, sideVars, isInitialized, sections,
                   sectionPositions, documentHeight, viewportHeight,
                   currentScrollProgress, minimodeActive, callbacks, config,
                   resizeTimeout, browserVars>>

destroy ==
    /\ lastOp' = Op("destroy", TRUE)
    /\ notified' = NoNotify
    /\ isActive' = FALSE
    /\ LET e0 == [Engine EXCEPT !.loop = stopR(LoopState, isActive)]
           e1 == removeSpringE(e0, SCROLL)
           e2 == removeSpringE(e1, SCRUBBER_FILL)
           e3 == removeSpringE(e2, MINIMODE_SCALE)
       IN  SetEngine(removeSpringE(e3, MINIMODE_Y))
    /\ callbacks' = {}
    /\ isInitialized' = FALSE
    /\ sections' = <<>>
    /\ sectionPositions' = <<>>
    /\ UNCHANGED <<onUpdateCallbacks, frames, sideVars, documentHeight, viewportHeight,
                   currentScrollProgress, minimodeActive, config, resizeTimeout,
                   browserVars>>

\* the user scrolls the document to y; the 'scroll' listener runs when attached
scrollEvent(y) ==
    /\ y # scrollY
    /\ scrollY' = y
    /\ lastOp' = Op("scroll", TRUE)
    /\ notified' = NoNotify
    /\ IF isActive
       THEN /\ CanRequest
            /\ SetEngine(handleNativeScroll(Engine, y, documentHeight, viewportHeight))
       ELSE UNCHANGED <<springs, isRunning, rafId, lastTime, pending>>
    /\ UNCHANGED <<onUpdateCallbacks, frames, sideVars, orchVars, layout>>

\* the window is resized to layout l; the 'resize' listener runs when attached:
\* handleResize clears the pending timer and sets a new one
resizeEvent(l) ==
    /\ l # layout
    /\ layout' = l
    /\ scrollY' = Landed(scrollY, l)
    /\ lastOp' = Op("resize", TRUE)
    /\ notified' = NoNotify
    /\ resizeTimeout' = (isActive \/ resizeTimeout)
    /\ UNCHANGED <<engineVars, frames, sideVars, isInitialized, isActive, sections,
                   sectionPositions, documentHeight, viewportHeight,
                   currentScrollProgress, minimodeActive, callbacks, config>>

\* the debounce timer set by handleResize fires
resizeTimer ==
    /\ resizeTimeout
    /\ CanRequest
    /\ resizeTimeout' = FALSE
    /\ lastOp' = Op("resizeTimer", TRUE)
    /\ notified' = NoNotify
    /\ LET m == measureSections(sections, layout)
       IN  /\ documentHeight' = m.documentHeight
           /\ viewportHeight' = m.viewportHeight
           /\ sectionPositions' = m.sectionPositions
           /\ SetEngine(handleNativeScroll(Engine, scrollY, m.documentHeight,
                                           m.viewportHeight))
    /\ UNCHANGED <<onUpdateCallbacks, frames, sideVars, isInitialized, isActive, sections,
                   currentScrollProgress, minimodeActive, callbacks, config,
                   browserVars>>

scrollToProgress(progress, smooth) ==
    /\ CanRequest
    /\ lastOp' = Op("scrollToProgress", smooth)
    /\ notified' = NoNotify
    /\ LET r == scrollToProgressR(Engine, progress, smooth, documentHeight,
                                  viewportHeight)
       IN  SetEngine(r.engine)
    /\ UNCHANGED <<onUpdateCallbacks, frames, sideVars, orchVars, browserVars>>

scrollToSection(sectionIndex, smooth) ==
    /\ CanRequest
    /\ lastOp' = Op("scrollToSection", validIndex(sectionIndex, sectionPositions))
    /\ notified' = NoNotify
    /\ IF ~validIndex(sectionIndex, sectionPositions)
       THEN UNCHANGED <<springs, isRunning, rafId, lastTime, pending, nanSprings>>
       ELSE LET position  == sectionPositions[sectionIndex + 1]
                maxScroll == documentHeight - viewportHeight
                progress  == sectionProgress(position.top, maxScroll)
            IN  CASE progress.kind = "number" ->
                       /\ SetEngine(scrollToProgressR(Engine, progress.v, smooth,
                                                      documentHeight,
                                                      viewportHeight).engine)
                       /\ UNCHANGED nanSprings
                  [] progress.kind = "Infinity" ->
                       \* Math.min(1, Infinity) is 1
                       /\ SetEngine(scrollToProgressR(Engine, Unit, smooth,
                                                      documentHeight,
                                                      viewportHeight).engine)
                       /\ UNCHANGED nanSprings
                  [] OTHER ->
                       LET r == scrollToProgressNaN(Engine, smooth)
                       IN  /\ SetEngine(r.engine)
                           /\ nanSprings' = nanSprings \cup r.handed
    /\ UNCHANGED <<onUpdateCallbacks, frames, stepDt, hook, page, sectionSnap,
                   orchVars, browserVars>>

(***************************************************************************)
(* Specification of the orchestrator on the engine                         *)
(* The page drives the orchestrator; another client of the engine calls    *)
(* the spring API with an id of the orchestrator and with an id nobody     *)
(* registered.                                                             *)
(***************************************************************************)
SectionLists == {<<"s1", "s2">>}
CallbackSets == {AllCallbacks}
\* 0-based indexes passed to scrollToSection: below, inside and above the range
SectionIndexes == {-1, 1, 2}
\* progress values passed to scrollToProgress: below and above [0, 1]
ProgressInputs == {-(Unit \div 2), 2 * Unit}
\* time between two frame callbacks, in ticks: a pause longer than maxDeltaTime
OrchElapsed == {15}
OtherClientIds == {"x"}

NextOrch ==
    \/ \E secs \in SectionLists, cbs \in CallbackSets : init(secs, cbs)
    \/ start
    \/ stop
    \/ destroy
    \/ \E y \in ScrollStops(layout) : scrollEvent(y)
    \/ \E l \in Layouts : resizeEvent(l)
    \/ resizeTimer
    \/ \E p \in ProgressInputs, smooth \in BOOLEAN : scrollToProgress(p, smooth)
    \/ \E i \in SectionIndexes, smooth \in BOOLEAN : scrollToSection(i, smooth)
    \/ \E id \in OtherClientIds : updateTarget(id, Unit)
    \/ \E id \in OtherClientIds : setValue(id, Unit)
    \/ \E id \in OtherClientIds, cfg \in ClientConfigs : setConfig(id, cfg)
    \/ \E e \in OrchElapsed \cup {0} : loop(e, NoReact)

SpecOrch == Init /\ [][NextOrch]_vars

(***************************************************************************)
(* Specification of two drivers of one engine                              *)
(* The orchestrator is initialized, started and stopped while another      *)
(* client (as useSectionSnap does with its 'section-snap' spring) registers *)
(* a spring of its own, retargets it and starts the loop.                  *)
(***************************************************************************)
OrchIds == {SCROLL, SCRUBBER_FILL, MINIMODE_SCALE, MINIMODE_Y}

NextDrivers ==
    \/ \E secs \in SectionLists, cbs \in CallbackSets : init(secs, cbs)
    \/ start
    \/ stop
    \/ \E y \in ScrollStops(layout) : scrollEvent(y)
    \/ \E id \in DrivenIds : \E a \in CreateArgs(id) :
          createSpring(id, a[1], a[2], DefaultK, DefaultC)
    \/ \E id \in DrivenIds, t \in ClientValues : updateTarget(id, t)
    \/ startLoop
    \/ \E e \in ElapsedSet \cup {0} : loop(e, NoReact)

SpecDrivers == Init /\ [][NextDrivers]_vars

(***************************************************************************)
(* Specification of section navigation on any document                     *)
(* The orchestrator on documents that scroll and on one that fits the      *)
(* window; no frame runs, so a spring keeps what the operations gave it.   *)
(***************************************************************************)
SectionLayouts == {1, 3}
ValidIndexes == {0, 1}

NextSection ==
    \/ \E secs \in SectionLists, cbs \in CallbackSets : init(secs, cbs)
    \/ start
    \/ stop
    \/ destroy
    \/ \E y \in ScrollStops(layout) : scrollEvent(y)
    \/ \E l \in SectionLayouts : resizeEvent(l)
    \/ resizeTimer
    \/ \E i \in ValidIndexes \cup SectionIndexes, smooth \in BOOLEAN :
          scrollToSection(i, smooth)

SpecSection == Init /\ [][NextSection]_vars

\* updateConfig(newConfig)
updateConfig(newConfig) ==
    /\ config' = mergeConfig(config, newConfig)
    /\ SetEngine(propagateConfig(Engine, newConfig))
    /\ lastOp' = Op("updateConfig", isInitialized)
    /\ notified' = NoNotify
    /\ UNCHANGED <<onUpdateCallbacks, frames, sideVars, isInitialized, isActive, sections,
                   sectionPositions, documentHeight, viewportHeight,
                   currentScrollProgress, minimodeActive, callbacks, resizeTimeout,
                   browserVars>>

(***************************************************************************)
(* Specification of live configuration                                     *)
(* updateConfig is called on an initialized orchestrator with overrides of *)
(* both coefficients, of one coefficient, and of a key that is no spring.  *)
(***************************************************************************)
ConfigOverrides ==
    {[scrollSpring |-> [k |-> 10, c |-> 14]],
     [scrubberSpring |-> [c |-> 10]],
     [minimodeSpring |-> [k |-> 6, c |-> 16], minimodeScale |-> Unit \div 2],
     [labelFadeRange |-> Unit \div 5]}

NextConfig ==
    \/ \E secs \in SectionLists, cbs \in CallbackSets : init(secs, cbs)
    \/ start
    \/ stop
    \/ destroy
    \/ \E y \in ScrollStops(layout) : scrollEvent(y)
    \/ \E newConfig \in ConfigOverrides : isInitialized /\ updateConfig(newConfig)

SpecConfig == Init /\ [][NextConfig]_vars

(***************************************************************************)
(* Specification of the orchestrator's measurement passes                  *)
(* The section lists hold ids with and without an element in the document. *)
(***************************************************************************)
MeasureLists == {<<"s1", "s2">>, <<"s2", "ghost", "s1">>, <<"ghost">>, <<>>}

NextMeasure ==
    \/ \E secs \in MeasureLists, cbs \in CallbackSets : init(secs, cbs)
    \/ start
    \/ stop
    \/ destroy
    \/ \E y \in ScrollStops(layout) : scrollEvent(y)
    \/ \E l \in Layouts : resizeEvent(l)
    \/ resizeTimer

SpecMeasure == Init /\ [][NextMeasure]_vars

(***************************************************************************)
(* Specification of the orchestrator following one scroll                  *)
(* The orchestrator is initialized and started, the user scrolls to the    *)
(* bottom of the document, and frames of 100 ms run for three seconds.     *)
(***************************************************************************)
NextFollow ==
    \/ \E secs \in SectionLists, cbs \in CallbackSets : init(secs, cbs)
    \/ start
    \/ scrollEvent(DomMaxScroll(layout))
    \/ \E e \in OrchElapsed \cup {0} : loopUpTo(MaxLongFrames, e, NoReact)

SpecFollow == Init /\ [][NextFollow]_vars

(***************************************************************************)
(* Browser: the page of book sections                                      *)
(* A page gives window.innerHeight and the heights of the '.book-section'  *)
(* elements, which follow each other from the top of the document.         *)
(***************************************************************************)
\* page 3 renders no '.book-section' element
Pages == {1, 2, 3}
BookPage(p) ==
    CASE p = 1 -> [innerHeight |-> 800, heights |-> <<500, 3000, 500>>]
      [] p = 2 -> [innerHeight |-> 800, heights |-> <<800, 800, 800>>]
      [] OTHER -> [innerHeight |-> 800, heights |-> <<>>]

RECURSIVE SumHeights(_, _)
SumHeights(heights, n) == IF n = 0 THEN 0 ELSE heights[n] + SumHeights(heights, n - 1)

PageMaxScroll(p) ==
    Max(0, SumHeights(BookPage(p).heights, Len(BookPage(p).heights))
           - BookPage(p).innerHeight)

\* where the document of a page comes to rest: the top of each section, and
\* in the long section of page 1 the position 60% through it and the position
\* that shows its bottom edge; positions past the end of the document do not
\* exist
PageStops(p) ==
    {y \in {SumHeights(BookPage(p).heights, n) : n \in 0..Len(BookPage(p).heights) - 1}
           \cup (IF p = 1 THEN {2300, 2700} ELSE {}) \cup {PageMaxScroll(p)} :
        y <= PageMaxScroll(p)}

\* the browser keeps the scroll position inside the document
PageLanded(top, p) == Max(0, Min(top, PageMaxScroll(p)))

\* a wheel event that no handler prevented scrolls the document natively, to
\* the next resting position in the wheel's direction
NativeWheel(y, deltaY, p) ==
    LET ahead == {z \in PageStops(p) : IF deltaY > 0 THEN z > y ELSE z < y}
    IN  IF ahead = {} \/ Abs(deltaY) < WheelMinDelta THEN y
        ELSE CHOOSE z \in ahead : \A w \in ahead : Abs(w - y) >= Abs(z - y)

(***************************************************************************)
(* useSectionScroll: pure parts                                            *)
(***************************************************************************)
\* updateSections: querySelectorAll('.book-section') measured
updateSections(p) ==
    [i \in 1..Len(BookPage(p).heights) |->
        [top    |-> SumHeights(BookPage(p).heights, i - 1),
         bottom |-> SumHeights(BookPage(p).heights, i),
         height |-> BookPage(p).heights[i]]]

\* getCurrentSection: the first section that holds the viewport's center, or 0
getCurrentSection(secs, y, viewportH) ==
    LET hits == {i \in 1..Len(secs) :
                    /\ 2 * y + viewportH >= 2 * secs[i].top
                    /\ 2 * y + viewportH < 2 * secs[i].bottom}
    IN  IF hits = {} THEN 0
        ELSE (CHOOSE i \in hits : \A j \in hits : i <= j) - 1

\* the hook's scrollToSection(index, behavior)
hookScrollToSection(h, index, behavior) ==
    LET clampedIndex == Max(0, Min(index, Len(h.sections) - 1))
    IN  IF index # clampedIndex THEN h
        ELSE IF clampedIndex + 1 > Len(h.sections)
        \* sections[0] of an empty list is undefined: section.top throws after
        \* the flag is set
        THEN [h EXCEPT !.isScrollingRef = TRUE, !.threw = TRUE]
        ELSE [h EXCEPT !.isScrollingRef = TRUE,
                       !.issued = Append(@, scrollTo(h.sections[clampedIndex + 1].top,
                                                     behavior)),
                       !.currentSectionRef = clampedIndex,
                       !.cooldowns = @ + 1]

\* mutant of isLongSection: every section is taken for a short one
isLongSectionNever(section, viewportH) == FALSE

\* handleWheel: sectionHeight > viewportHeight * 1.1
isLongSection(section, viewportH) == 10 * section.height > 11 * viewportH

\* mutant of adjacentSection: the wheel's direction is not looked at
adjacentSectionDown(currentSection, deltaY) == currentSection + 1

\* handleWheel: the section a wheel event jumps to
adjacentSection(currentSection, deltaY) ==
    IF deltaY > 0 THEN currentSection + 1 ELSE currentSection - 1

\* what every handler starts from: nothing issued yet
Fresh(h, deltaY) ==
    [h EXCEPT !.issued = <<>>, !.deltaY = deltaY, !.key = "", !.prevented = FALSE,
              !.threw = FALSE]

\* handleWheel(e)
handleWheel(h, deltaY, y, viewportH) ==
    LET h0 == Fresh(h, deltaY)
        hP == [h0 EXCEPT !.prevented = TRUE]
        currentSection == getCurrentSection(h.sections, y, viewportH)
    IN  IF h.isScrollingRef THEN hP
        ELSE IF Abs(deltaY) < WheelMinDelta THEN h0
        ELSE IF currentSection + 1 > Len(h.sections) THEN h0
        ELSE LET section        == h.sections[currentSection + 1]
                 isLastSection  == currentSection = Len(h.sections) - 1
                 isFirstSection == currentSection = 0
                 scrollWithinSection == y - section.top
                 atSectionTop    == scrollWithinSection < EdgeThreshold
                 atSectionBottom == section.bottom - (y + viewportH) < EdgeThreshold
             IN  IF isLongSection(section, viewportH)
                 THEN IF deltaY > 0 /\ atSectionBottom
                      THEN IF isLastSection THEN h0
                           ELSE hookScrollToSection(hP, adjacentSection(currentSection,
                                                                        deltaY), "smooth")
                      ELSE IF deltaY < 0 /\ atSectionTop
                      THEN IF isFirstSection THEN h0
                           ELSE hookScrollToSection(hP, adjacentSection(currentSection,
                                                                        deltaY), "smooth")
                      ELSE h0
                 ELSE IF deltaY > 0
                      THEN IF isLastSection THEN hP
                           ELSE hookScrollToSection(hP, adjacentSection(currentSection,
                                                                        deltaY), "smooth")
                      ELSE IF isFirstSection THEN hP
                           ELSE hookScrollToSection(hP, adjacentSection(currentSection,
                                                                        deltaY), "smooth")

\* handleKeyDown(e)
Keys == {"ArrowDown", "PageDown", " ", "ArrowUp", "PageUp", "Home", "End", "a"}
JumpKeys == Keys \ {"a"}

\* handleKeyDown: the index a navigation key asks scrollToSection for
requestedIndex(key, currentSection, n) ==
    CASE key \in {"ArrowDown", "PageDown", " "} -> currentSection + 1
      [] key \in {"ArrowUp", "PageUp"}          -> currentSection - 1
      [] key = "Home"                           -> 0
      [] key = "End"                            -> n - 1

handleKeyDown(h, key, y, viewportH) ==
    LET h0 == [Fresh(h, 0) EXCEPT !.key = key]
        hP == [h0 EXCEPT !.prevented = TRUE]
        currentSection == getCurrentSection(h.sections, y, viewportH)
    IN  IF h.isScrollingRef THEN h0
        ELSE IF key \in JumpKeys
        THEN hookScrollToSection(hP, requestedIndex(key, currentSection,
                                                    Len(h.sections)), "smooth")
        ELSE h0

\* where the document is after a handler: at the top it asked for, if any
AfterHandler(h, y, p) ==
    IF h.issued = <<>> THEN y ELSE PageLanded(h.issued[Len(h.issued)].top, p)

\* a scroll event reaches handleScroll when the position moved under an
\* attached listener: it sets the 100 ms timer anew
handleScroll(h, moved) ==
    IF moved /\ h.mounted THEN [h EXCEPT !.scrollTimeout = TRUE] ELSE h

(***************************************************************************)
(* useSectionScroll: the effect, the events and the timers                 *)
(***************************************************************************)
hookUnchanged == <<engineVars, frames, stepDt, nanSprings, page, sectionSnap, orchVars,
                   layout>>

\* the effect runs: updateSections, listeners, the initial-jump timer
mount ==
    /\ ~hook.mounted
    /\ ~hook.initialJump
    /\ hook' = [Fresh(hook, 0) EXCEPT !.mounted = TRUE,
                                      !.sections = updateSections(page),
                                      !.initialJump = TRUE]
    /\ lastOp' = Op("mount", TRUE)
    /\ notified' = NoNotify
    /\ UNCHANGED <<hookUnchanged, scrollY>>

\* the effect's cleanup
unmount ==
    /\ hook.mounted
    /\ hook' = [Fresh(hook, 0) EXCEPT !.mounted = FALSE, !.scrollTimeout = FALSE]
    /\ lastOp' = Op("unmount", TRUE)
    /\ notified' = NoNotify
    /\ UNCHANGED <<hookUnchanged, scrollY>>

\* a wheel event: handleWheel, then the native scroll unless prevented
wheel(deltaY) ==
    /\ hook.mounted
    /\ hook.cooldowns < MaxCooldowns
    /\ LET h == handleWheel(hook, deltaY, scrollY, BookPage(page).innerHeight)
           y == IF h.prevented THEN AfterHandler(h, scrollY, page)
                ELSE NativeWheel(scrollY, deltaY, page)
       IN  /\ scrollY' = y
           /\ hook' = handleScroll(h, y # scrollY)
    /\ lastOp' = Op("wheel", ~hook.isScrollingRef)
    /\ notified' = NoNotify
    /\ UNCHANGED hookUnchanged

\* a key is pressed
keyDown(key) ==
    /\ hook.mounted
    /\ hook.cooldowns < MaxCooldowns
    /\ LET h == handleKeyDown(hook, key, scrollY, BookPage(page).innerHeight)
           y == AfterHandler(h, scrollY, page)
       IN  /\ scrollY' = y
           /\ hook' = handleScroll(h, y # scrollY)
    /\ lastOp' = Op("keyDown", ~hook.isScrollingRef)
    /\ notified' = NoNotify
    /\ UNCHANGED hookUnchanged

\* the user drags the scrollbar to y
dragScroll(y) ==
    /\ y # scrollY
    /\ scrollY' = y
    /\ hook' = handleScroll(Fresh(hook, 0), TRUE)
    /\ lastOp' = Op("dragScroll", TRUE)
    /\ notified' = NoNotify
    /\ UNCHANGED hookUnchanged

\* the 100 ms timer of handleScroll fires
scrollTimer ==
    /\ hook.scrollTimeout
    /\ hook' = [Fresh(hook, 0) EXCEPT
                   !.scrollTimeout = FALSE,
                   !.currentSectionRef =
                       getCurrentSection(hook.sections, scrollY,
                                         BookPage(page).innerHeight)]
    /\ lastOp' = Op("scrollTimer", TRUE)
    /\ notified' = NoNotify
    /\ UNCHANGED <<hookUnchanged, scrollY>>

\* the 100 ms timer set by the effect fires: scrollToSection(0, 'auto')
initialTimer ==
    /\ hook.initialJump
    /\ hook.cooldowns < MaxCooldowns
    /\ LET h == hookScrollToSection([Fresh(hook, 0) EXCEPT !.initialJump = FALSE],
                                    0, "auto")
           y == AfterHandler(h, scrollY, page)
       IN  /\ scrollY' = y
           /\ hook' = handleScroll(h, y # scrollY)
    /\ lastOp' = Op("initialTimer", hook.mounted)
    /\ notified' = NoNotify
    /\ UNCHANGED hookUnchanged

\* the oldest 600 ms timer of scrollToSection fires; the initial-jump timer of
\* the same effect, due after 100 ms, has fired before it
cooldownTimer ==
    /\ hook.cooldowns > 0
    /\ ~hook.initialJump
    /\ hook' = [Fresh(hook, 0) EXCEPT !.isScrollingRef = FALSE, !.cooldowns = @ - 1]
    /\ lastOp' = Op("cooldownTimer", hook.mounted)
    /\ notified' = NoNotify
    /\ UNCHANGED <<hookUnchanged, scrollY>>

(***************************************************************************)
(* Specification of the section-scroll hook                                *)
(***************************************************************************)
WheelDeltas == {-100, 3, 100}

InitScroll ==
    /\ springs = <<>>
    /\ isRunning = FALSE
    /\ rafId = {}
    /\ lastTime = Null
    /\ pending = <<>>
    /\ onUpdateCallbacks = <<>>
    /\ frames = 0
    /\ stepDt = 0
    /\ notified = NoNotify
    /\ lastOp = Op("construct", FALSE)
    /\ OrchConstructed
    /\ page \in Pages
    /\ sectionSnap = SnapRendered(1)

NextScroll ==
    \/ mount
    \/ unmount
    \/ \E d \in WheelDeltas : wheel(d)
    \/ \E key \in Keys : keyDown(key)
    \/ \E y \in PageStops(page) : dragScroll(y)
    \/ scrollTimer
    \/ initialTimer
    \/ cooldownTimer

SpecScroll == InitScroll /\ [][NextScroll]_vars

\* the hook mounted once, with timers that fire when they are due
NextScrollFair ==
    \/ mount
    \/ \E d \in WheelDeltas : wheel(d)
    \/ \E key \in Keys : keyDown(key)
    \/ \E y \in PageStops(page) : dragScroll(y)
    \/ scrollTimer
    \/ initialTimer
    \/ cooldownTimer

SpecScrollFair ==
    /\ InitScroll
    /\ [][NextScrollFair]_vars
    /\ WF_vars(scrollTimer) /\ WF_vars(initialTimer) /\ WF_vars(cooldownTimer)

(***************************************************************************)
(* Browser: the container of snap sections                                 *)
(* Snap document 1 holds three '[data-section]' elements that follow each  *)
(* other from the top; snap document 2 has no container element.           *)
(***************************************************************************)
SnapDoms == {1, 2}
SnapDom(d) ==
    IF d = 1
    THEN [container |-> TRUE, innerHeight |-> 10, heights |-> <<10, 30, 10>>]
    ELSE [container |-> FALSE, innerHeight |-> 10, heights |-> <<>>]

\* document.documentElement.scrollHeight - window.innerHeight
SnapMaxScroll(d) ==
    Max(0, SumHeights(SnapDom(d).heights, Len(SnapDom(d).heights))
           - SnapDom(d).innerHeight)

\* where the user's own scrolling comes to rest
SnapStops(d) == {y \in {0, 4, 10, 25, 28, 40} : y <= SnapMaxScroll(d)}

\* window.scrollTo(0, spring.value): the position in whole pixels, inside the
\* document
SnapLanded(value, d) == Max(0, Min(RoundDiv(value, Unit), SnapMaxScroll(d)))

(***************************************************************************)
(* useSectionSnap: pure parts                                              *)
(***************************************************************************)
SECTION_SNAP == "section-snap"

\* measureSections
snapMeasureSections(d) ==
    IF ~SnapDom(d).container THEN <<>>
    ELSE [i \in 1..Len(SnapDom(d).heights) |->
            [index     |-> i - 1,
             offsetTop |-> SumHeights(SnapDom(d).heights, i - 1),
             height    |-> SnapDom(d).heights[i],
             isTall    |-> SnapDom(d).heights[i] > SnapDom(d).innerHeight,
             snapStart |-> SumHeights(SnapDom(d).heights, i - 1),
             snapEnd   |-> SumHeights(SnapDom(d).heights, i)]]

\* getCurrentSection(scrollY): found is FALSE for null; progress is the
\* fraction num / den, clamped to [0, 1]
snapGetCurrentSection(secs, y, viewportH) ==
    LET hits == {i \in 1..Len(secs) :
                    /\ 2 * y + viewportH >= 2 * secs[i].snapStart
                    /\ 2 * y + viewportH < 2 * secs[i].snapEnd}
    IN  IF hits # {}
        THEN LET i == CHOOSE i \in hits : \A j \in hits : i <= j
             IN  [found |-> TRUE, index |-> i - 1,
                  num |-> Max(0, Min(2 * y + viewportH - 2 * secs[i].snapStart,
                                     2 * secs[i].height)),
                  den |-> 2 * secs[i].height]
        ELSE IF Len(secs) > 0
        THEN [found |-> TRUE, index |-> Len(secs) - 1, num |-> 1, den |-> 1]
        ELSE [found |-> FALSE, index |-> 0, num |-> 0, den |-> 1]

\* setIsSnapping(v): when the state changes, the scroll effect is run again
\* and its cleanup clears the pending 150 ms timer
setIsSnapping(S, v) ==
    IF S.isSnapping = v THEN S
    ELSE [S EXCEPT !.isSnapping = v, !.userScrollTimeout = FALSE]

\* handleScroll, attached while the hook is enabled and has sections
snapHandleScroll(S, y) ==
    IF ~S.mounted \/ S.sections = <<>> THEN S
    ELSE [S EXCEPT !.scrollDirection = IF y > S.lastScrollY THEN "down" ELSE "up",
                   !.lastScrollY = y,
                   !.isUserScrolling = TRUE,
                   !.userScrollTimeout = TRUE,
                   !.closureY = y]

\* updateScroll: one frame of the snap animation; R is [snap, engine, y]
updateScroll(R) ==
    IF SECTION_SNAP \notin DOMAIN R.engine.springs
    THEN [R EXCEPT !.snap.animating = FALSE]
    ELSE LET spring == R.engine.springs[SECTION_SNAP]
             y      == SnapLanded(spring.value, R.snap.dom)
         IN  IF spring.isSettled
             THEN [snap   |-> IF y # R.y
                              THEN snapHandleScroll(
                                       setIsSnapping([R.snap EXCEPT !.animating = FALSE],
                                                     FALSE), y)
                              ELSE setIsSnapping([R.snap EXCEPT !.animating = FALSE],
                                                 FALSE),
                   engine |-> removeSpringE(R.engine, SECTION_SNAP),
                   y      |-> y]
             ELSE [snap   |-> IF y # R.y
                              THEN snapHandleScroll([R.snap EXCEPT !.animating = TRUE], y)
                              ELSE [R.snap EXCEPT !.animating = TRUE],
                   engine |-> R.engine,
                   y      |-> y]

\* snapToSection(sectionIndex, align)
snapToSection(R, sectionIndex, align) ==
    LET S == [R.snap EXCEPT !.called = Append(@, [index |-> sectionIndex,
                                                   align |-> align])]
    IN  IF sectionIndex \notin 0..Len(S.sections) - 1 \/ S.isSnapping
        THEN [R EXCEPT !.snap = S]
        ELSE LET section        == S.sections[sectionIndex + 1]
                 viewportH      == SnapDom(S.dom).innerHeight
                 aligned        == CASE align = "start"  -> section.snapStart
                                     [] align = "center" ->
                                          section.snapStart
                                            + (section.height - viewportH) \div 2
                                     [] OTHER -> section.snapEnd - viewportH
                 targetScroll   == Max(0, Min(aligned, SnapMaxScroll(S.dom)))
                 S1             == [setIsSnapping(S, TRUE) EXCEPT
                                       !.currentSectionIndex = sectionIndex]
                 E1             == IF SECTION_SNAP \notin DOMAIN R.engine.springs
                                   THEN createSpringE(R.engine, SECTION_SNAP, R.y * Unit,
                                                      targetScroll * Unit,
                                                      SmoothK, SmoothC)
                                   ELSE updateTargetE(R.engine, SECTION_SNAP,
                                                      targetScroll * Unit)
                 E2             == IF ~E1.loop.isRunning
                                   THEN [E1 EXCEPT !.loop = startLoopSt(@)]
                                   ELSE E1
             IN  updateScroll([snap |-> S1, engine |-> E2, y |-> R.y])

\* what every handler of the snap hook starts from
SnapFresh(S) ==
    [S EXCEPT !.key = "", !.metaKey = FALSE, !.prevented = FALSE, !.called = <<>>]

\* the callback of the 150 ms timer of handleScroll
snapScrollStopped(R) ==
    LET S0      == [SnapFresh(R.snap) EXCEPT !.isUserScrolling = FALSE,
                                             !.userScrollTimeout = FALSE]
        current == snapGetCurrentSection(S0.sections, S0.closureY,
                                         SnapDom(S0.dom).innerHeight)
    IN  IF S0.isSnapping \/ ~current.found THEN [R EXCEPT !.snap = S0]
        ELSE LET S1      == [S0 EXCEPT !.currentSectionIndex = current.index]
                 R1      == [R EXCEPT !.snap = S1]
                 section == S1.sections[current.index + 1]
                 viewportH         == SnapDom(S1.dom).innerHeight
                 scrollInSection   == S1.closureY - section.snapStart
                 sectionScrollable == section.height - viewportH
             IN  IF ~section.isTall
                 THEN IF /\ 10 * current.num > SnapThresholdTenths * current.den
                         /\ 10 * current.num < (10 - SnapThresholdTenths) * current.den
                      THEN snapToSection(R1, current.index, "start")
                      ELSE R1
                 ELSE IF /\ 10 * scrollInSection < SnapThresholdTenths * viewportH
                         /\ S1.scrollDirection = "up"
                      THEN snapToSection(R1, current.index, "start")
                      ELSE IF /\ 10 * scrollInSection
                                    > 10 * sectionScrollable
                                      - SnapThresholdTenths * viewportH
                              /\ S1.scrollDirection = "down"
                              /\ current.index < Len(S1.sections) - 1
                      THEN snapToSection(R1, current.index + 1, "start")
                      ELSE R1

\* handleKeyDown(e) of the snap hook
snapHandleKeyDown(R, key, metaKey) ==
    LET S0      == [SnapFresh(R.snap) EXCEPT !.key = key, !.metaKey = metaKey]
        R0      == [R EXCEPT !.snap = S0]
        RP      == [R EXCEPT !.snap = [S0 EXCEPT !.prevented = TRUE]]
        current == snapGetCurrentSection(S0.sections, R.y, SnapDom(S0.dom).innerHeight)
        index   == current.index
    IN  IF S0.isSnapping \/ ~current.found THEN R0
        ELSE IF (key = "ArrowDown" /\ metaKey) \/ key = "PageDown"
        THEN IF index < Len(S0.sections) - 1
             THEN snapToSection(RP, index + 1, "start") ELSE RP
        ELSE IF (key = "ArrowUp" /\ metaKey) \/ key = "PageUp"
        THEN IF index > 0 THEN snapToSection(RP, index - 1, "start") ELSE RP
        ELSE IF key = "Home" THEN snapToSection(RP, 0, "start")
        ELSE IF key = "End" THEN snapToSection(RP, Len(S0.sections) - 1, "start")
        ELSE R0

(***************************************************************************)
(* useSectionSnap: the effects, the events, the timer and the frames       *)
(***************************************************************************)
SnapState == [snap |-> sectionSnap, engine |-> Engine, y |-> scrollY]
SetSnapState(R) ==
    /\ sectionSnap' = R.snap
    /\ SetEngine(R.engine)
    /\ scrollY' = R.y
snapUnchanged == <<onUpdateCallbacks, frames, stepDt, nanSprings, hook, page, orchVars,
                   layout>>

\* the effects run: measureSections, the listeners
snapMount ==
    /\ ~sectionSnap.mounted
    /\ sectionSnap' = [SnapFresh(sectionSnap) EXCEPT
                          !.mounted = TRUE,
                          !.sections = snapMeasureSections(sectionSnap.dom)]
    /\ lastOp' = Op("snapMount", TRUE)
    /\ notified' = NoNotify
    /\ UNCHANGED <<engineVars, snapUnchanged, scrollY>>

\* a key is pressed
snapKeyDown(key, metaKey) ==
    /\ sectionSnap.mounted
    /\ CanRequest
    /\ SetSnapState(snapHandleKeyDown(SnapState, key, metaKey))
    /\ lastOp' = Op("snapKeyDown", ~sectionSnap.isSnapping)
    /\ notified' = NoNotify
    /\ UNCHANGED snapUnchanged

\* the user scrolls the document to y
snapUserScroll(y) ==
    /\ y # scrollY
    /\ ~sectionSnap.animating
    /\ scrollY' = y
    /\ sectionSnap' = snapHandleScroll(SnapFresh(sectionSnap), y)
    /\ lastOp' = Op("snapUserScroll", TRUE)
    /\ notified' = NoNotify
    /\ UNCHANGED <<engineVars, snapUnchanged>>

\* the 150 ms timer fires
snapScrollTimer ==
    /\ sectionSnap.userScrollTimeout
    /\ CanRequest
    /\ SetSnapState(snapScrollStopped(SnapState))
    /\ lastOp' = Op("snapScrollTimer", ~sectionSnap.isSnapping)
    /\ notified' = NoNotify
    /\ UNCHANGED snapUnchanged

\* the requested frame of updateScroll runs
snapFrame ==
    /\ sectionSnap.animating
    /\ SetSnapState(updateScroll([SnapState EXCEPT !.snap = SnapFresh(@)]))
    /\ lastOp' = Op("snapFrame", SECTION_SNAP \in DOMAIN springs)
    /\ notified' = NoNotify
    /\ UNCHANGED snapUnchanged

(***************************************************************************)
(* Specification of the snap hook on the engine                            *)
(***************************************************************************)
SnapKeys == {"ArrowDown", "PageDown", " ", "ArrowUp", "PageUp", "Home", "End"}

InitSnap ==
    /\ springs = <<>>
    /\ isRunning = FALSE
    /\ rafId = {}
    /\ lastTime = Null
    /\ pending = <<>>
    /\ onUpdateCallbacks = <<>>
    /\ frames = 0
    /\ stepDt = 0
    /\ notified = NoNotify
    /\ lastOp = Op("construct", FALSE)
    /\ OrchConstructed
    /\ page = 1
    /\ sectionSnap \in {SnapRendered(d) : d \in SnapDoms}

NextSnap ==
    \/ snapMount
    \/ \E key \in SnapKeys, metaKey \in BOOLEAN : snapKeyDown(key, metaKey)
    \/ \E y \in SnapStops(sectionSnap.dom) : snapUserScroll(y)
    \/ snapScrollTimer
    \/ snapFrame
    \/ \E e \in OrchElapsed \cup {0} : loopUpTo(MaxSnapFrames, e, NoReact)

SpecSnap == InitSnap /\ [][NextSnap]_vars

(***************************************************************************)
(* Claims                                                                  *)
(***************************************************************************)
Registered == DOMAIN springs
RanFrame == lastOp.op = "loop" /\ lastOp.known
FrameRequested == rafId # {} /\ rafId \subseteq Range(pending)

\* C1: every spring whose settled flag is true has velocity exactly 0 and
\* value exactly equal to its target
C1_SettledIsExact ==
    \A id \in Registered :
        springs[id].isSettled =>
            springs[id].velocity = 0 /\ springs[id].value = springs[id].target

\* C2: createSpring with an id that is registered leaves the springs as they
\* were, and createSpring with an id that is not registered (for instance
\* after removeSpring) registers one more spring
C2_CreateKeepsExisting ==
    [][ /\ (lastOp'.op = "createSpring" /\ lastOp'.known) => springs' = springs
        /\ (lastOp'.op = "createSpring" /\ ~lastOp'.known) =>
               /\ Cardinality(DOMAIN springs') = Cardinality(DOMAIN springs) + 1
               /\ \A id \in DOMAIN springs' \ DOMAIN springs :
                      ~springs'[id].isSettled /\ springs'[id].velocity = 0 ]_vars

\* C3: an integration step that finds every spring settled stops the loop,
\* and an updateTarget on a registered spring, called from outside a frame or
\* from a subscriber callback of a frame (the settling frame included),
\* leaves the spring unsettled with the loop running and a frame requested
C3_RetargetWakesLoop ==
    /\ (RanFrame /\ notified.slept /\ ~notified.reacted) => ~isRunning
    /\ (lastOp.op = "updateTarget" /\ lastOp.known) =>
           isRunning /\ FrameRequested
    /\ (RanFrame /\ notified.reacted) =>
           /\ isRunning /\ FrameRequested
           /\ \E id \in Registered : ~springs[id].isSettled

\* C4: updateTarget, setValue and setConfig with an id that is not registered,
\* scrollToSection with an index outside the measured sections, and init on an
\* initialized orchestrator leave the springs, the loop, the subscribers and
\* the orchestrator's whole state as they were
C4_UsageErrorsAreNoOps ==
    [][ ( \/ (lastOp'.op \in {"updateTarget", "setValue", "setConfig"} /\ ~lastOp'.known)
          \/ (lastOp'.op = "scrollToSection" /\ ~lastOp'.known)
          \/ (lastOp'.op = "init" /\ lastOp'.known) )
        => UNCHANGED <<engineVars, orchVars>> ]_vars

\* an unregistered id reached updateTarget while the orchestrator's springs
\* were registered and the loop was idle
C4_Witness ==
    /\ lastOp = Op("updateTarget", FALSE)
    /\ isInitialized
    /\ SCROLL \in Registered
    /\ ~isRunning
    /\ pending = <<>>

\* C5: a frame that ran the integration step invoked each subscriber exactly
\* once, in order, with one value map that holds, for every registered spring,
\* the value the spring has after this frame's integration
C5_FrameAtomicity ==
    (RanFrame /\ onUpdateCallbacks # <<>>) =>
        /\ notified.got = onUpdateCallbacks
        /\ DOMAIN notified.snap = Registered
        /\ \A id \in Registered : notified.snap[id] = springs[id].value

\* a frame integrated the moving spring x next to its sibling y and notified
\* two subscribers
C5_Witness ==
    /\ RanFrame
    /\ Len(onUpdateCallbacks) = 2
    /\ Registered = {"x", "y"}
    /\ springs["x"].velocity # 0
    /\ springs["x"].value # springs["y"].value

\* C6: when a subscriber throws during a frame, every registered subscriber
\* still receives the frame, nothing escapes notifyUpdate, and unless the
\* frame went to sleep the loop is running with its next frame requested
C6_ThrowIsolated ==
    (RanFrame /\ "thrower" \in Range(onUpdateCallbacks)) =>
        /\ notified.got = onUpdateCallbacks
        /\ ~notified.escaped
        /\ ~notified.slept => (isRunning /\ FrameRequested)

\* a frame was delivered first to a throwing subscriber, then to another one,
\* and the loop did not go to sleep
C6_Witness ==
    /\ RanFrame
    /\ onUpdateCallbacks = <<"thrower", "probe">>
    /\ ~notified.slept
    /\ Registered # {}

\* C7: with k and c in (0,1), a fixed target and a constant dt in (0, maxDeltaTime],
\* repeated integration steps reach value = target with the settled flag true
C7_Converges ==
    <>(springs["x"].isSettled /\ springs["x"].value = springs["x"].target
       /\ springs["x"].velocity = 0)

\* the displaced spring has been stepped until it settled on its target
C7_Witness ==
    /\ lastOp.op = "step"
    /\ frames > ScenarioFrames
    /\ springs["x"].isSettled
    /\ springs["x"].value = springs["x"].target
    /\ springs["x"].target = Unit

\* the run of the scenario: createSpring('x', 0, 0, 0.5, 0.7), updateTarget('x', 1),
\* dt = 1/60
InScenario ==
    /\ "x" \in Registered
    /\ springs["x"].k = DefaultK /\ springs["x"].c = DefaultC
    /\ springs["x"].target = Unit
    /\ stepDt = 1

\* C8: after 120 steps of the scenario the value is within 0.001 of 1 and the
\* spring is settled
C8_ScenarioSettles ==
    (InScenario /\ lastOp.op = "step" /\ frames = ScenarioFrames) =>
        /\ Abs(springs["x"].value - Unit) < sleepThreshold
        /\ springs["x"].isSettled

\* C9: a frame's integration step leaves every spring that was settled before
\* it, and that no subscriber retargeted, with the same value, velocity and
\* settled flag (and target)
C9_SettledStaysPut ==
    [][ (lastOp'.op = "loop" /\ lastOp'.known /\ ~notified'.reacted) =>
            \A id \in DOMAIN springs :
                springs[id].isSettled => springs'[id] = springs[id] ]_vars

\* a frame with dt > 0 ran over a spring that was already settled
C9_Witness ==
    /\ RanFrame
    /\ ~notified.reacted
    /\ "x" \in notified.skipped
    /\ notified.dt > 0

\* C10: a resize debounce timer that fires while the orchestrator is stopped
\* or destroyed remeasures nothing, retargets no spring and leaves the loop
\* as it is
C10_NoTimerAfterTeardown ==
    [][ (lastOp'.op = "resizeTimer" /\ ~isActive)
        => UNCHANGED <<sectionPositions, documentHeight, viewportHeight, springs,
                       isRunning, rafId, pending>> ]_vars

\* C11: right after destroy() none of the orchestrator's springs is
\* registered, callbacks and section geometry are empty, and getState()
\* reports what it reports on a newly constructed orchestrator
C11_DestroyRestoresPreInit ==
    lastOp.op = "destroy" =>
        /\ Registered \cap {SCROLL, SCRUBBER_FILL, MINIMODE_SCALE, MINIMODE_Y} = {}
        /\ callbacks = {}
        /\ sectionPositions = <<>>
        /\ getState = ConstructedState

\* C12: the orchestrator's stop() leaves a running loop running, with its
\* frame still requested, when a spring that the orchestrator does not own is
\* registered and unsettled
C12_StopSparesOtherDrivers ==
    [][ ( /\ lastOp'.op = "stop"
          /\ isRunning
          /\ \E id \in Registered \ OrchIds : ~springs[id].isSettled )
        => isRunning' /\ pending' = pending ]_vars

\* C13: in every state, for either value of the smooth flag, scrollToProgress
\* with a progress below 0 leaves the engine and requests the native scroll
\* exactly as scrollToProgress(0) does, and with a progress above 1 exactly
\* as scrollToProgress(1) does
C13_Clamping ==
    CanRequest =>
        \A smooth \in BOOLEAN :
            /\ \A p \in {-(Unit \div 2), -1} :
                  scrollToProgressR(Engine, p, smooth, documentHeight, viewportHeight)
                  = scrollToProgressR(Engine, 0, smooth, documentHeight, viewportHeight)
            /\ \A p \in {Unit + 1, (17 * Unit) \div 10, 2 * Unit} :
                  scrollToProgressR(Engine, p, smooth, documentHeight, viewportHeight)
                  = scrollToProgressR(Engine, Unit, smooth, documentHeight,
                                      viewportHeight)

\* scrollToProgress(2, false) has run on registered springs that were
\* elsewhere: both hold the value 1
C13_Witness ==
    /\ lastOp = Op("scrollToProgress", FALSE)
    /\ SCROLL \in Registered
    /\ springs[SCROLL].value = Unit
    /\ springs[SCRUBBER_FILL].value = Unit
    /\ springs[SCROLL].target # Unit

\* C14: scrollToProgress(p, false) leaves both scroll springs at clamp(p, 0, 1)
\* with velocity 0, and a frame that follows it directly (no scroll event and
\* no target update in between) leaves both values where they are
C14_JumpIsNotAnimated ==
    [][ /\ (lastOp' = Op("scrollToProgress", FALSE) /\ SCROLL \in Registered) =>
              \A id \in {SCROLL, SCRUBBER_FILL} :
                  /\ springs'[id].value \in {0, Unit}
                  /\ springs'[id].velocity = 0
        /\ ( /\ lastOp = Op("scrollToProgress", FALSE)
             /\ SCROLL \in Registered
             /\ lastOp'.op = "loop" ) =>
              \A id \in {SCROLL, SCRUBBER_FILL} :
                  springs'[id].value = springs[id].value ]_vars

\* C15: for every valid index, the progress that scrollToSection hands to
\* scrollToProgress is a number, and it is 0 when the document is not
\* scrollable; no spring was handed NaN
C15_SectionProgressDefined ==
    /\ \A i \in 1..Len(sectionPositions) :
          LET maxScroll == documentHeight - viewportHeight
              progress  == sectionProgress(sectionPositions[i].top, maxScroll)
          IN  /\ progress.kind = "number"
              /\ maxScroll <= 0 => progress.v = 0
    /\ nanSprings = {}

\* C16: every value that a frame delivers to onScrollProgressUpdate and to
\* onScrubberUpdate lies in [0, 1]
C16_DeliveredInUnitRange ==
    (RanFrame /\ "orch" \in Range(notified.got)) =>
        LET d == handleSpringUpdate(notified.snap)
        IN  /\ "onScrollProgressUpdate" \in callbacks =>
                  (0 <= d.scrollProgress /\ d.scrollProgress <= Unit)
            /\ "onScrubberUpdate" \in callbacks =>
                  (0 <= d.scrubberProgress /\ d.scrubberProgress <= Unit)

\* the scroll position of this progress puts the center of section i at the
\* center of the viewport
SectionCentered(i, scrollProgress) ==
    scrollProgress * (documentHeight - viewportHeight)
        = (2 * sectionPositions[i].center - viewportHeight) * (Unit \div 2)

\* C17: in the label records that a frame delivers to onLabelUpdate, the label
\* of a section that the delivered progress centers in the viewport has
\* opacity 1 and is active, and a label at a distance of fadeRange or more has
\* opacity 0
C17_LabelSymmetry ==
    (RanFrame /\ "orch" \in Range(notified.got) /\ "onLabelUpdate" \in callbacks) =>
        LET scrollProgress == handleSpringUpdate(notified.snap).scrollProgress
            labels         == calculateLabelAnimations(scrollProgress)
        IN  \A i \in 1..Len(sectionPositions) :
                /\ SectionCentered(i, scrollProgress) =>
                      labels[i].opacity = Unit /\ labels[i].isActive
                /\ labelDistance(sectionPositions[i], scrollProgress)
                      >= config.labelFadeRange => labels[i].opacity = 0

\* the section under the viewport's center, as the handlers compute it
CurrentSection == getCurrentSection(hook.sections, scrollY, BookPage(page).innerHeight)
\* this step is a wheel event of at least the minimum delta, handled while idle
IdleWheel ==
    /\ hook.mounted
    /\ ~hook.isScrollingRef
    /\ lastOp'.op = "wheel"
    /\ Abs(hook'.deltaY) >= WheelMinDelta
    /\ CurrentSection + 1 <= Len(hook.sections)
\* the one jump the step asks for, to section index target
JumpsOnceTo(target) ==
    /\ hook'.issued = <<scrollTo(hook.sections[target + 1].top, "smooth")>>
    /\ hook'.currentSectionRef = target
    /\ scrollY' = PageLanded(hook.sections[target + 1].top, page)
    /\ ~hook'.threw
\* the step neither jumps nor scrolls nor throws
NoScrollNoError ==
    /\ hook'.issued = <<>>
    /\ scrollY' = scrollY
    /\ ~hook'.threw

EdgeDistance ==
    IF hook'.deltaY > 0
    THEN hook.sections[CurrentSection + 1].bottom
            - (scrollY + BookPage(page).innerHeight)
    ELSE scrollY - hook.sections[CurrentSection + 1].top

\* C19: on a section taller than 110% of the viewport, a wheel event issues no
\* jump while the viewport is at least the threshold away from the section's
\* edge in the wheel's direction (the browser scrolls natively), and issues
\* exactly one jump to the adjacent section when within the threshold; for
\* heights [500, 3000, 500] and viewport 800, wheel-down at 60% through the
\* middle section does not jump and wheel-down near its bottom jumps once to
\* the third section
C19_LongSectionWheel ==
    [][ (IdleWheel
         /\ 10 * hook.sections[CurrentSection + 1].height
               > 11 * BookPage(page).innerHeight) =>
            LET target == IF hook'.deltaY > 0 THEN CurrentSection + 1
                          ELSE CurrentSection - 1
            IN  /\ EdgeDistance >= EdgeThreshold =>
                      /\ hook'.issued = <<>>
                      /\ ~hook'.prevented
                      /\ scrollY' = NativeWheel(scrollY, hook'.deltaY, page)
                /\ (EdgeDistance < EdgeThreshold
                    /\ target \in 0..Len(hook.sections) - 1) => JumpsOnceTo(target)
                /\ (page = 1 /\ scrollY = 2300 /\ hook'.deltaY > 0) =>
                      hook'.issued = <<>>
                /\ (page = 1 /\ scrollY = 2700 /\ hook'.deltaY > 0) =>
                      hook'.issued = <<scrollTo(3500, "smooth")>> ]_vars

\* wheel-down near the bottom of the long middle section has just jumped to
\* the third section
C19_Witness ==
    /\ lastOp = Op("wheel", TRUE)
    /\ page = 1
    /\ hook.deltaY > 0
    /\ hook.issued = <<scrollTo(3500, "smooth")>>
    /\ hook.currentSectionRef = 2
    /\ scrollY = PageMaxScroll(1)

\* C20: once a section jump is issued, wheel and keyboard input issue no
\* further jump until that jump's own cooldown has elapsed: no wheel or key
\* event issues a jump while the 600 ms timer of an earlier jump is pending
C20_NoJumpDuringCooldown ==
    [][ (lastOp'.op \in {"wheel", "keyDown"} /\ hook'.issued # <<>>) =>
            hook.cooldowns = 0 ]_vars

\* this step asks the hook's scrollToSection, while idle, for the index
\* JumpRequest: the initial-jump timer for 0, a navigation key for its section
IdleJumpRequest ==
    /\ ~hook.isScrollingRef
    /\ \/ lastOp'.op = "initialTimer"
       \/ lastOp'.op = "keyDown" /\ hook'.key \in JumpKeys
JumpRequest ==
    IF lastOp'.op = "initialTimer" THEN 0
    ELSE requestedIndex(hook'.key, CurrentSection, Len(hook.sections))

\* C21: a jump request for an index outside the current section list, which
\* is every index when the list is empty, performs no native scroll, raises
\* no error and leaves the controller idle
C21_OutOfRangeJumpIsNoOp ==
    [][ (IdleJumpRequest /\ JumpRequest \notin 0..Len(hook.sections) - 1) =>
            /\ NoScrollNoError
            /\ ~hook'.isScrollingRef ]_vars

\* the section under the viewport's center, as the snap hook computes it
SnapCurrent ==
    snapGetCurrentSection(sectionSnap.sections, scrollY,
                          SnapDom(sectionSnap.dom).innerHeight)

\* the section the spec gives a navigation key: the next one for ArrowDown,
\* PageDown and Space, the previous one for ArrowUp and PageUp, the first for
\* Home, the last for End
KeyDestination(key, currentSection, n) ==
    CASE key \in {"ArrowDown", "PageDown", " "} -> currentSection + 1
      [] key \in {"ArrowUp", "PageUp"}          -> currentSection - 1
      [] key = "Home"                           -> 0
      [] OTHER                                  -> n - 1

\* the section-scroll hook gives every navigation key its destination while
\* idle, and none while a jump is in flight
KeysRequestJumpsInSectionScroll ==
    [][ (lastOp'.op = "keyDown" /\ hook'.key \in JumpKeys) =>
            LET dest == KeyDestination(hook'.key, CurrentSection, Len(hook.sections))
            IN  IF hook.isScrollingRef THEN hook'.issued = <<>>
                ELSE dest \in 0..Len(hook.sections) - 1 => JumpsOnceTo(dest) ]_vars

\* C22: while idle, ArrowDown, PageDown and Space each request a jump to the
\* section after the current one, ArrowUp and PageUp to the section before
\* it, Home to the first section and End to the last; while a programmatic
\* scroll is in flight no key requests a jump
C22_KeysRequestJumps ==
    [][ (lastOp'.op = "snapKeyDown" /\ sectionSnap'.key \in SnapKeys) =>
            LET dest == KeyDestination(sectionSnap'.key, SnapCurrent.index,
                                       Len(sectionSnap.sections))
            IN  IF sectionSnap.isSnapping THEN sectionSnap'.called = <<>>
                ELSE dest \in 0..Len(sectionSnap.sections) - 1 =>
                        sectionSnap'.called = <<[index |-> dest, align |-> "start"]>>
      ]_vars

\* the operations of the two section controllers
SnapControllerOps ==
    {"snapMount", "snapKeyDown", "snapUserScroll", "snapScrollTimer", "snapFrame",
     "mount", "unmount", "wheel", "keyDown", "dragScroll", "scrollTimer",
     "initialTimer", "cooldownTimer"}

\* C23: no action of the section snap controller (wheel, keyboard, scroll-stop
\* snapping, jump) creates, retargets, removes or changes a spring of the
\* engine or starts its loop
C23_SnapLeavesEngineAlone ==
    [][ lastOp'.op \in SnapControllerOps =>
            UNCHANGED <<springs, isRunning, rafId, lastTime, pending>> ]_vars

\* the last operation was a measurement pass: a first init, or the resize
\* timer
JustMeasured ==
    \/ lastOp = Op("init", FALSE)
    \/ lastOp.op = "resizeTimer"

\* C24: after every measurement pass the geometry list holds exactly one
\* record per supplied section, in the supplied order; a section whose element
\* is not found has the record top 0, height 0, center 0, every other section
\* its measured top and height and center = top + height / 2
C24_OneRecordPerSection ==
    JustMeasured =>
        /\ DOMAIN sectionPositions = DOMAIN sections
        /\ \A i \in DOMAIN sections :
              IF sections[i] \notin DOMAIN Dom(layout).rects
              THEN sectionPositions[i] = [top |-> 0, height |-> 0, center |-> 0]
              ELSE /\ sectionPositions[i].top = Dom(layout).rects[sections[i]].top
                   /\ sectionPositions[i].height = Dom(layout).rects[sections[i]].height
                   /\ 2 * sectionPositions[i].center
                         = 2 * sectionPositions[i].top + sectionPositions[i].height

\* the resize timer has just remeasured a list whose second id has no element
C24_Witness ==
    /\ lastOp.op = "resizeTimer"
    /\ sections = <<"s2", "ghost", "s1">>
    /\ layout = 2
    /\ sectionPositions[1] = [top |-> 300, height |-> 300, center |-> 450]
    /\ sectionPositions[2] = [top |-> 0, height |-> 0, center |-> 0]
    /\ sectionPositions[3] = [top |-> 0, height |-> 300, center |-> 150]

\* the configuration key of each spring of the orchestrator
ConfigKeyOf(id) ==
    CASE id = SCROLL        -> "scrollSpring"
      [] id = SCRUBBER_FILL -> "scrubberSpring"
      [] OTHER              -> "minimodeSpring"

\* C25: after any sequence of updateConfig calls on an initialized
\* orchestrator, the k and c of each of its four springs equal the k and c
\* that the orchestrator's configuration records for that spring
C25_SpringsFollowConfig ==
    isInitialized =>
        \A id \in OrchIds :
            /\ id \in DOMAIN springs
            /\ DOMAIN config[ConfigKeyOf(id)] = {"k", "c"}
            /\ springs[id].k = config[ConfigKeyOf(id)].k
            /\ springs[id].c = config[ConfigKeyOf(id)].c

\* C26: the resize events of a burst measure nothing and leave one debounce
\* timer pending; when that timer fires the sections are remeasured once, no
\* timer stays pending, and the scroll handler sets the targets of both
\* progress springs from the current scroll position and the fresh geometry
C26_ResizeDebounce ==
    [][ /\ lastOp'.op = "resize" =>
              /\ UNCHANGED <<sectionPositions, documentHeight, viewportHeight, springs>>
              /\ isActive => resizeTimeout'
        /\ lastOp'.op = "resizeTimer" =>
              /\ ~resizeTimeout'
              /\ documentHeight' = Dom(layout).scrollHeight
              /\ viewportHeight' = Dom(layout).innerHeight
              /\ sectionPositions' = measureSections(sections, layout).sectionPositions
              /\ isInitialized =>
                    \A id \in {SCROLL, SCRUBBER_FILL} :
                        /\ springs'[id].target =
                              scrollProgressOf(scrollY, Dom(layout).scrollHeight,
                                               Dom(layout).innerHeight)
                        /\ ~springs'[id].isSettled
      ]_vars

\* the timer of a resize has just remeasured the second layout and moved both
\* targets to the bottom of the document
C26_Witness ==
    /\ lastOp.op = "resizeTimer"
    /\ isInitialized /\ isActive
    /\ layout = 2
    /\ documentHeight = 600
    /\ scrollY = DomMaxScroll(2)
    /\ springs[SCROLL].target = Unit
    /\ springs[SCRUBBER_FILL].target = Unit
    /\ ~resizeTimeout

\* C27: at most one frame callback of the engine is pending at any moment,
\* and none once the loop has stopped, by stopLoop or by auto-sleep
C27_OneFramePending ==
    /\ Len(pending) <= 1
    /\ ~isRunning => pending = <<>>

\* C28: the orchestrator holds at most one subscription on the engine, and
\* none after destroy(), so that a frame reaches each presentation callback
\* once
C28_OneSubscription ==
    /\ OrchSubscriptions <= 1
    /\ ~isInitialized => OrchSubscriptions = 0
    /\ RanFrame =>
          Len(SelectSeq(notified.got, LAMBDA x : x = "orch"))
              = (IF isInitialized THEN 1 ELSE 0)

\* C29: under fair frame scheduling and with no stopLoop, a registered spring
\* that is unsettled eventually becomes settled, also when it was created
\* away from its target, or moved by setValue, while the loop was asleep
C29_UnsettledSettles ==
    ("x" \in DOMAIN springs /\ ~springs["x"].isSettled)
        ~> ("x" \in DOMAIN springs /\ springs["x"].isSettled)

\* C30: whenever the section-scroll controller is in the
\* programmatic-scroll-in-flight state it eventually returns to idle, whatever
\* the jumps, the timer firings and the section list, an empty list at the
\* initial jump included
C30_InFlightEnds == hook.isScrollingRef ~> ~hook.isScrollingRef

====
